---- MODULE Spec2Model ----
(***************************************************************************)
(* A model of tevinric/mcp-server-db2rpg.                                  *)
(*                                                                         *)
(*  - src/client.py: RPGConversionClient.chat_completion, the bounded      *)
(*    tool-call loop over a transcript (SpecChat).                         *)
(*  - src/mcp-server.py: RPGConverter.analyze_traditional_rpg and          *)
(*    RPGConverter.convert_to_freeform over fixed-column source lines      *)
(*    (SpecConv, SpecScore).                                               *)
(*                                                                         *)
(* Texts of the transcript are modelled by their length and origin: the    *)
(* loop reads nothing of a text but its length.  Source lines and          *)
(* generated lines are sequences of one-character strings.                 *)
(***************************************************************************)
EXTENDS Integers, Sequences, FiniteSets, TLC

VARIABLES
    \* ---- client.py, chat_completion
    messages,          \* the caller's list (its dicts are shared with the copy)
    current_messages,  \* the run's transcript
    tool_call_count,   \* rounds completed
    max_tool_calls,    \* the parameter
    pc,                \* position in chat_completion
    pending,           \* message.tool_calls of the round in progress
    call_idx,          \* index in pending of the next call to execute
    result,            \* the value returned
    raised_by,         \* the capability whose failure left chat_completion
    next_id,           \* source of fresh call ids
    \* observations of the run (no counterpart in the code)
    model_calls,       \* number of model invocations
    all_tool_answers,  \* every model answer so far carried tool calls
    last_response,     \* the last model outcome
    invoked,           \* call ids handed to the tool invoker, in order
    failed,            \* call ids whose parsing or invocation failed
    \* ---- mcp-server.py, convert_to_freeform and analyze_traditional_rpg
    code,              \* the source text passed in
    standards,         \* the standards argument
    lines,             \* code.split('\n')
    analysis,          \* the analysis dict
    line_num,          \* 1-based number of the next line of the loop
    cpc,               \* position in convert_to_freeform
    converted_lines,   \* the list of generated lines
    conversion_result, \* the result dict
    \* ---- mcp-server.py, extract_code_blocks (the scan for traditional blocks)
    doc,                   \* the text passed in
    doc_lines,             \* text.split('\n')
    doc_idx,               \* 1-based number of the next line of the loop
    traditional_block,     \* the lines accumulated
    in_traditional_block,  \* the flag of the scan
    code_blocks,           \* the blocks appended by the scan
    bpc,                   \* position in extract_code_blocks
    \* ---- mcp-server.py, call_tool, the branch batch_analyze_rpg
    code_segments,           \* the code of each segment of the argument
    seg_idx,                 \* 1-based number of the next segment of the loop
    results,                 \* the list of per-segment results
    total_complexity_score,  \* the sum of the scores
    low_complexity,          \* the results listed as low
    medium_complexity,       \* the results listed as medium
    high_complexity,         \* the results listed as high
    tpc                      \* position in the branch

varsChat == <<messages, current_messages, tool_call_count, max_tool_calls, pc,
              pending, call_idx, result, raised_by, next_id, model_calls,
              all_tool_answers, last_response, invoked, failed>>

varsConv == <<code, standards, lines, analysis, line_num, cpc, converted_lines,
              conversion_result>>

varsBlocks == <<doc, doc_lines, doc_idx, traditional_block, in_traditional_block,
                code_blocks, bpc>>

varsBatch == <<code_segments, seg_idx, results, total_complexity_score,
               low_complexity, medium_complexity, high_complexity, tpc>>

vars == <<varsChat, varsConv, varsBlocks, varsBatch>>

----------------------------------------------------------------------------
(* Bounds of the model *)

\* largest max_tool_calls tried
MaxRounds == 3
\* most tool-call requests in one model answer
MaxCalls == 2
\* most tool-call requests in one run
MaxTotalCalls == 4
\* most lines of a source text
MaxLines == 2
\* most lines of a text scanned for blocks
MaxBlockLines == 5
\* most segments of a batch
MaxSegments == 2

----------------------------------------------------------------------------
(* Program constants, client.py *)

\* self.max_tokens
ContextLimit == 128000
\* _truncate_content's default max_tokens
MessageBudget == 100000
\* max_tokens passed for a tool result
ToolBudget == 10000
\* current_messages[-5:]
TailSize == 5
\* len("\n\n[Content truncated due to length limitations...]")
MarkerLen == 50
\* len("Maximum tool calls reached")
SentinelLen == 26
\* len("Error: ")
ErrorPrefixLen == 7

----------------------------------------------------------------------------
(* Texts: a length, where the text came from, and whether the truncation   *)
(* marker was appended.                                                    *)

Text(n, k) == [len |-> n, kind |-> k, marked |-> FALSE]

\* Python's None (message.content of an answer without text)
NoneText == Text(0, "none")
\* the value of `result` before chat_completion returned
Unset == Text(0, "unset")
\* "Maximum tool calls reached"
Sentinel == Text(SentinelLen, "sentinel")

\* len(text) // 4
_count_tokens(text) == text.len \div 4

\* content[:int(max_tokens * 4 * 0.8)] + marker when over budget
_truncate_content(content, max_tokens) ==
    IF _count_tokens(content) <= max_tokens
    THEN content
    ELSE [content EXCEPT !.len = ((max_tokens * 4 * 8) \div 10) + MarkerLen,
                         !.marked = TRUE]

\* message.content or ""
OrEmpty(content) == IF content.kind = "none" \/ content.len = 0
                    THEN Text(0, "model") ELSE content

\* f"Error: {str(e)}"
ErrorText(elen) == Text(ErrorPrefixLen + elen, "error")

----------------------------------------------------------------------------
(* Transcript messages *)

NoId == 0

Msg(role, content, calls, id) ==
    [role |-> role, content |-> content, tool_calls |-> calls, tool_call_id |-> id]

UserMsg(n) == Msg("user", Text(n, "user"), <<>>, NoId)
SystemMsg(n) == Msg("system", Text(n, "user"), <<>>, NoId)

\* the dict appended at lines 219-233
AssistantMsg(content, calls) ==
    Msg("assistant", OrEmpty(content), [i \in 1..Len(calls) |-> calls[i].id], NoId)

\* a faulty variant of lines 251-255: the message does not carry the call id
ToolResultMsgUntied(id, text) ==
    Msg("tool", _truncate_content(text, ToolBudget), <<>>, NoId)

\* the dict appended at lines 251-255
ToolResultMsg(id, text) ==
    Msg("tool", _truncate_content(text, ToolBudget), <<>>, id)

\* the dict appended at lines 259-263: the error text is appended as it is
ToolErrorMsg(id, elen) == Msg("tool", ErrorText(elen), <<>>, id)

RECURSIVE SumLen(_)
SumLen(msgs) ==
    IF msgs = <<>> THEN 0 ELSE Head(msgs).content.len + SumLen(Tail(msgs))

\* len(" ".join([msg.get("content", "") for msg in current_messages]))
JoinedLen(msgs) == IF msgs = <<>> THEN 0 ELSE SumLen(msgs) + (Len(msgs) - 1)

\* self._count_tokens(total_content)
TotalTokens(msgs) == JoinedLen(msgs) \div 4

\* self._count_tokens(total_content) > self.max_tokens * 0.8
OverBudget(msgs) == TotalTokens(msgs) * 10 > ContextLimit * 8

\* a faulty variant of line 271: current_messages[:5]
KeepHead(msgs) == SubSeq(msgs, 1, IF Len(msgs) < TailSize THEN Len(msgs) ELSE TailSize)

\* current_messages[-5:]
KeepTail(msgs) ==
    IF Len(msgs) <= TailSize THEN msgs
    ELSE SubSeq(msgs, Len(msgs) - TailSize + 1, Len(msgs))

\* lines 267-271
Evict(msgs) == IF OverBudget(msgs) THEN KeepTail(msgs) ELSE msgs

\* lines 198-200, applied to every dict of the list
TruncateAll(msgs) ==
    [i \in 1..Len(msgs) |->
        [msgs[i] EXCEPT !.content = _truncate_content(msgs[i].content, MessageBudget)]]

----------------------------------------------------------------------------
(* Inputs of a run *)

\* the message lists chat_completion is called with
InitialMessageLists ==
    { <<UserMsg(100)>>,
      <<UserMsg(400003)>>,
      <<SystemMsg(100), UserMsg(400004)>>,
      <<SystemMsg(400003), UserMsg(500000)>> }

\* message.content of an answer without tool calls
ModelContents == { NoneText, Text(40, "model") }

\* message.content of an answer that requests tools: it carries no text
ToolCallContents == { NoneText }

\* the text a tool returns
ToolResultLens == { 10, 40004 }

\* len(str(e)) of a failure of json.loads: a message, a line and a column
ParseErrorLens == { 20 }

\* len(str(e)) of a failure of call_tool: a short description, and one that
\* carries a large payload
ErrorLens == { 20, 400100 }

\* the argument payloads of n requests: parseable by json.loads or not
ArgChoices(n) == [1..n -> BOOLEAN]

\* message.tool_calls with fresh ids
MakeCalls(args, base) ==
    [i \in 1..Len(args) |-> [id |-> base + i, args_ok |-> args[i]]]

RaiseOutcome == [kind |-> "raise", content |-> NoneText, tool_calls |-> <<>>]
MessageOutcome(c, calls) == [kind |-> "message", content |-> c, tool_calls |-> calls]
NoResponse == [kind |-> "none", content |-> NoneText, tool_calls |-> <<>>]


----------------------------------------------------------------------------
(* mcp-server.py: strings are sequences of one-character strings *)

Min(a, b) == IF a < b THEN a ELSE b

\* the characters str.strip() removes
White == {" ", "\t"}

\* Python's s[a:b] for 0 <= a <= b (offsets 0-based, end-exclusive)
Slice(s, a, b) == SubSeq(s, a + 1, Min(b, Len(s)))

RECURSIVE LStrip(_)
LStrip(s) == IF s # <<>> /\ Head(s) \in White THEN LStrip(Tail(s)) ELSE s

RECURSIVE RStrip(_)
RStrip(s) ==
    IF s # <<>> /\ s[Len(s)] \in White THEN RStrip(SubSeq(s, 1, Len(s) - 1)) ELSE s

\* str.strip()
Strip(s) == RStrip(LStrip(s))

LowerLetters == <<"a", "b", "c", "d", "e", "f", "g", "h", "i", "j", "k", "l", "m", "n", "o", "p", "q", "r", "s", "t", "u", "v", "w", "x", "y", "z">>
UpperLetters == <<"A", "B", "C", "D", "E", "F", "G", "H", "I", "J", "K", "L", "M", "N", "O", "P", "Q", "R", "S", "T", "U", "V", "W", "X", "Y", "Z">>

UpperChar(c) ==
    IF \E i \in 1..Len(LowerLetters) : LowerLetters[i] = c
    THEN UpperLetters[CHOOSE i \in 1..Len(LowerLetters) : LowerLetters[i] = c]
    ELSE c

\* str.upper()
Upper(s) == [i \in 1..Len(s) |-> UpperChar(s[i])]

\* s.startswith(prefix)
StartsWith(s, prefix) ==
    Len(s) >= Len(prefix) /\ SubSeq(s, 1, Len(prefix)) = prefix

BEGSR == <<"B", "E", "G", "S", "R">>

----------------------------------------------------------------------------
(* Source lines of the inputs: blanks, with texts placed at 0-based offsets *)

P(at, s) == [at |-> at, s |-> s]

MkLine(len, pieces) ==
    [i \in 1..len |->
        IF \E p \in pieces : p.at < i /\ i <= p.at + Len(p.s)
        THEN LET p == CHOOSE r \in pieces : r.at < i /\ i <= r.at + Len(r.s)
             IN p.s[i - p.at]
        ELSE " "]

\* an empty line
L_EMPTY == MkLine(0, {})
\* five characters: one short of the record-type column
L_SHORT == MkLine(5, {P(4, <<"C">>)})
\* a control specification
L_H == MkLine(16, {P(5, <<"H">>), P(7, <<"D", "A", "T", "E", "D", "I", "T">>)})
\* an input file: name at 7, type at 15, device at 35
L_F_IN == MkLine(42, {P(5, <<"F">>), P(7, <<"C", "U", "S", "T", "M", "A", "S", "T">>), P(15, <<"I">>), P(16, <<"F">>), P(33, <<"K">>), P(35, <<"D", "I", "S", "K">>)})
\* an output file with a short name and a seven-character device
L_F_OUT == MkLine(42, {P(5, <<"F">>), P(8, <<"R", "E", "P", "O", "R", "T">>), P(15, <<"O">>), P(35, <<"P", "R", "I", "N", "T", "E", "R">>)})
\* an update file, type in lower case, not keyed
L_F_UPD == MkLine(40, {P(5, <<"F">>), P(7, <<"O", "R", "D", "E", "R", "S">>), P(15, <<"u">>), P(36, <<"D", "I", "S", "K">>)})
\* a combined file (type C)
L_F_COMB == MkLine(42, {P(5, <<"F">>), P(7, <<"S", "C", "R", "E", "E", "N">>), P(15, <<"C">>), P(35, <<"W", "O", "R", "K", "S", "T", "N">>)})
\* a file specification in the RPG IV columns: name at 6, type at 16
L_F_RPG4 == MkLine(42, {P(5, <<"F">>), P(6, <<"C", "U", "S", "T", "M", "A", "S", "T">>), P(16, <<"I">>), P(17, <<"F">>), P(33, <<"K">>), P(35, <<"D", "I", "S", "K">>)})
\* a file specification cut after twelve characters
L_F_CUT == MkLine(12, {P(5, <<"F">>), P(7, <<"I", "T", "E", "M", "S">>)})
\* a definition
L_D == MkLine(40, {P(5, <<"D">>), P(7, <<"T", "O", "T", "A", "L">>), P(24, <<"S">>), P(36, <<"9", "P", " ", "2">>)})
\* a definition without a name
L_D_ANON == MkLine(40, {P(5, <<"D">>), P(24, <<"S">>), P(36, <<"1", "0", "A">>)})
\* an input specification
L_I == MkLine(20, {P(5, <<"I">>), P(7, <<"C", "U", "S", "T", "R", "E", "C">>)})
\* an output specification
L_O == MkLine(20, {P(5, <<"O">>), P(7, <<"R", "E", "P", "O", "R", "T">>)})
\* the start of subroutine calcTotal
L_C_BEGSR == MkLine(59, {P(5, <<"C">>), P(26, <<"B", "E", "G", "S", "R">>), P(50, <<"c", "a", "l", "c", "T", "o", "t", "a", "l">>)})
\* the end of a subroutine
L_C_ENDSR == MkLine(31, {P(5, <<"C">>), P(26, <<"E", "N", "D", "S", "R">>)})
\* a conditioned call of subroutine calcTotal
L_C_EXSR == MkLine(59, {P(5, <<"C">>), P(7, <<"0", "1">>), P(26, <<"E", "X", "S", "R">>), P(50, <<"c", "a", "l", "c", "T", "o", "t", "a", "l">>)})
\* an addition conditioned by indicator N02
L_C_ADD == MkLine(66, {P(5, <<"C">>), P(7, <<"N", "0", "2">>), P(12, <<"Q", "T", "Y">>), P(26, <<"A", "D", "D">>), P(36, <<"P", "R", "I", "C", "E">>), P(50, <<"T", "O", "T", "A", "L">>)})
\* a subtraction without factor 1, result field touching offset 63
L_C_SUB == MkLine(66, {P(5, <<"C">>), P(26, <<"S", "U", "B">>), P(36, <<"1">>), P(49, <<"X", "C", "O", "U", "N", "T", "E", "R", "F", "I", "E", "L", "D", "1", "2", "Z">>)})
\* a keyed read
L_C_CHAIN == MkLine(58, {P(5, <<"C">>), P(12, <<"C", "U", "S", "T", "N", "O">>), P(26, <<"C", "H", "A", "I", "N">>), P(50, <<"C", "U", "S", "T", "M", "A", "S", "T">>)})
\* a structured conditional
L_C_IF == MkLine(40, {P(5, <<"C">>), P(12, <<"Q", "T", "Y">>), P(26, <<"I", "F">>), P(36, <<">", " ", "0">>)})
\* the end of a conditional, fields padded with tabs
L_C_ENDIF == MkLine(33, {P(5, <<"C">>), P(7, <<"\t", "0", "1", "\t">>), P(25, <<"\t", "E", "N", "D", "I", "F", "\t">>)})
\* an operation without a mapping, conditioned by indicator 01
L_C_MOVE == MkLine(58, {P(5, <<"C">>), P(8, <<"0", "1">>), P(26, <<"M", "O", "V", "E">>), P(36, <<"A">>), P(50, <<"B">>)})
\* a subroutine start written in lower case
L_C_LOWER == MkLine(56, {P(5, <<"C">>), P(26, <<"b", "e", "g", "s", "r">>), P(50, <<"s", "u", "b", "2">>)})
\* a comment line that mentions BEGSR in the operation columns
L_COMMENT == MkLine(58, {P(5, <<"*">>), P(7, <<"s", "e", "e">>), P(26, <<"B", "E", "G", "S", "R">>), P(50, <<"n", "o", "t", "e", "s">>)})
\* prose: no record type in column 6
L_TEXT == MkLine(11, {P(0, <<"h", "e", "l", "l", "o">>), P(6, <<"w", "o", "r", "l", "d">>)})
\* a calculation line with the tag in lower case
L_LOWER_TAG == MkLine(52, {P(5, <<"c">>), P(26, <<"A", "D", "D">>), P(50, <<"X">>)})

\* the lines a source text is made of
Lines == { L_EMPTY, L_SHORT, L_H, L_F_IN, L_F_OUT,
           L_F_UPD, L_F_COMB, L_F_RPG4, L_F_CUT, L_D,
           L_D_ANON, L_I, L_O, L_C_BEGSR, L_C_ENDSR,
           L_C_EXSR, L_C_ADD, L_C_SUB, L_C_CHAIN, L_C_IF,
           L_C_ENDIF, L_C_MOVE, L_C_LOWER, L_COMMENT, L_TEXT,
           L_LOWER_TAG }

----------------------------------------------------------------------------
(* RPGConverter.analyze_traditional_rpg *)

\* the dict built at lines 155-168
NewAnalysis ==
    [format |-> "traditional",
     control_specs |-> <<>>, file_specs |-> <<>>, definition_specs |-> <<>>,
     input_specs |-> <<>>, calculation_specs |-> <<>>, output_specs |-> <<>>,
     indicators |-> <<>>, subroutines |-> <<>>, procedures |-> <<>>,
     fixed_format_lines |-> 0, conversion_complexity |-> "medium"]

\* a faulty variant of line 173: len(line) < 5
TooShortOffByOne(line) == Len(line) < 5

\* line 173: the length gate
TooShort(line) == Len(line) < 6

\* line 181: line[5:6]
RecordType(line) == Slice(line, 5, 6)

\* re.findall of the five keyword patterns: each needs a parenthesis, and no
\* line of Lines holds one
_extract_h_spec_keywords(line) == <<>>

\* lines 184-188
ControlEntry(n, line) ==
    [line |-> n, content |-> line, keywords |-> _extract_h_spec_keywords(line)]

\* a faulty variant of lines 190-196: the line number is not recorded
FileEntryUnnumbered(n, line) ==
    [line |-> 1, content |-> line,
     filename |-> Strip(Slice(line, 7, 15)),
     file_type |-> Slice(line, 15, 16),
     device |-> Strip(Slice(line, 35, 42))]

\* lines 190-196: the file type is the raw one-character slice
FileEntry(n, line) ==
    [line |-> n, content |-> line,
     filename |-> Strip(Slice(line, 7, 15)),
     file_type |-> Slice(line, 15, 16),
     device |-> Strip(Slice(line, 35, 42))]

\* lines 198-203
DefinitionEntry(n, line) ==
    [line |-> n, content |-> line,
     name |-> Strip(Slice(line, 7, 21)),
     spec_type |-> Slice(line, 24, 25)]

\* lines 205-208 and 218-221
PlainEntry(n, line) == [line |-> n, content |-> line]

\* lines 210-216
CalculationEntry(n, line) ==
    [line |-> n, content |-> line,
     indicators |-> Strip(Slice(line, 7, 11)),
     operation |-> Strip(Slice(line, 26, 36)),
     result |-> Strip(Slice(line, 50, 63))]

\* lines 183-221: the entry goes to the group of the record type
AddEntry(a, n, line) ==
    LET record_type == RecordType(line) IN
    CASE record_type = <<"H">> ->
           [a EXCEPT !.control_specs = Append(@, ControlEntry(n, line))]
      [] record_type = <<"F">> ->
           [a EXCEPT !.file_specs = Append(@, FileEntry(n, line))]
      [] record_type = <<"D">> ->
           [a EXCEPT !.definition_specs = Append(@, DefinitionEntry(n, line))]
      [] record_type = <<"I">> ->
           [a EXCEPT !.input_specs = Append(@, PlainEntry(n, line))]
      [] record_type = <<"C">> ->
           [a EXCEPT !.calculation_specs = Append(@, CalculationEntry(n, line))]
      [] record_type = <<"O">> ->
           [a EXCEPT !.output_specs = Append(@, PlainEntry(n, line))]
      [] OTHER -> a

\* line 178
CountLine(a) == [a EXCEPT !.fixed_format_lines = @ + 1]

\* lines 224-226: run for every line that passed the length gate
AddIndicator(a, line) ==
    LET indicators == Strip(Slice(line, 7, 11)) IN
    IF indicators # <<>>
       /\ ~(\E i \in 1..Len(a.indicators) : a.indicators[i] = indicators)
    THEN [a EXCEPT !.indicators = Append(@, indicators)]
    ELSE a

\* lines 229-232: run for every line that passed the length gate
AddSubroutine(a, line) ==
    LET operation == Upper(Strip(Slice(line, 26, 36))) IN
    IF operation = BEGSR
    THEN [a EXCEPT !.subroutines = Append(@, Strip(Slice(line, 50, 63)))]
    ELSE a

\* lines 172-232: one iteration of the loop over the lines
AnalyzeOneLine(a, n, line) ==
    IF TooShort(line) THEN a
    ELSE AddSubroutine(AddIndicator(AddEntry(CountLine(a), n, line), line), line)

\* lines 235-239
ComplexityScore(a) ==
    Len(a.file_specs) * 2 + Len(a.calculation_specs)
      + Len(a.indicators) * 3 + Len(a.subroutines) * 2

\* a faulty variant of lines 241-243: <= for <
ClassifyInclusive(score) ==
    IF score <= 10 THEN "low" ELSE IF score <= 30 THEN "medium" ELSE "high"

\* lines 241-246
Classify(score) ==
    IF score < 10 THEN "low" ELSE IF score < 30 THEN "medium" ELSE "high"

\* lines 234-246
WithComplexity(a) == [a EXCEPT !.conversion_complexity = Classify(ComplexityScore(a))]

----------------------------------------------------------------------------
(* The literals of convert_to_freeform and _apply_coding_standards *)

S_NEWLINE == <<"\n">>
S_CTL_OPT == <<"*", "*", "C", "T", "L", "-", "O", "P", "T", " ", "D", "F", "T", "A", "C", "T", "G", "R", "P", "(", "*", "N", "O", ")", " ", "A", "C", "T", "G", "R", "P", "(", "*", "C", "A", "L", "L", "E", "R", ")", ";">>
S_DCL_F == <<"D", "C", "L", "-", "F", " ">>
S_USAGE_INPUT == <<" ", "D", "I", "S", "K", "(", "*", "E", "X", "T", ")", " ", "U", "S", "A", "G", "E", "(", "*", "I", "N", "P", "U", "T", ")", " ", "K", "E", "Y", "E", "D", ";">>
S_USAGE_OUTPUT == <<" ", "D", "I", "S", "K", "(", "*", "E", "X", "T", ")", " ", "U", "S", "A", "G", "E", "(", "*", "O", "U", "T", "P", "U", "T", ")", ";">>
S_USAGE_UPDATE == <<" ", "D", "I", "S", "K", "(", "*", "E", "X", "T", ")", " ", "U", "S", "A", "G", "E", "(", "*", "U", "P", "D", "A", "T", "E", ")", " ", "K", "E", "Y", "E", "D", ";">>
S_DCL_S == <<"D", "C", "L", "-", "S", " ">>
S_CHAR50 == <<" ", "C", "H", "A", "R", "(", "5", "0", ")", ";", " ", "/", "/", " ", "T", "O", "D", "O", ":", " ", "V", "e", "r", "i", "f", "y", " ", "d", "a", "t", "a", " ", "t", "y", "p", "e">>
S_MAIN == <<"/", "/", " ", "M", "a", "i", "n", " ", "p", "r", "o", "c", "e", "s", "s", "i", "n", "g", " ", "l", "o", "g", "i", "c">>
S_DCL_PROC == <<"D", "C", "L", "-", "P", "R", "O", "C", " ">>
S_SEMI == <<";">>
S_END_PROC == <<"E", "N", "D", "-", "P", "R", "O", "C", ";">>
S_INDENT == <<" ", " ", " ", " ">>
S_CALL == <<"(", ")", ";">>
S_ASSIGN == <<" ", "=", " ">>
S_SPACE == <<" ">>
S_EQ == <<"=", " ">>
S_CHAIN == <<" ", " ", " ", " ", "C", "H", "A", "I", "N", " ">>
S_IF_NOT_FOUND == <<" ", " ", " ", " ", "I", "F", " ", "N", "O", "T", " ", "%", "F", "O", "U", "N", "D", "(">>
S_CLOSE == <<")", ";">>
S_HANDLE == <<" ", " ", " ", " ", " ", " ", " ", " ", "/", "/", " ", "H", "a", "n", "d", "l", "e", " ", "r", "e", "c", "o", "r", "d", " ", "n", "o", "t", " ", "f", "o", "u", "n", "d">>
S_ENDIF == <<" ", " ", " ", " ", "E", "N", "D", "I", "F", ";">>
S_IF == <<" ", " ", " ", " ", "I", "F", " ">>
S_ELSEIF == <<" ", " ", " ", " ", "E", "L", "S", "E", "I", "F", " ">>
S_ELSE == <<" ", " ", " ", " ", "E", "L", "S", "E", ";">>
S_STARS == <<"*", "*">>
S_DCL == <<"D", "C", "L", "-">>
OP_ENDSR == <<"E", "N", "D", "S", "R">>
OP_EXSR == <<"E", "X", "S", "R">>
OP_ADD == <<"A", "D", "D">>
OP_SUB == <<"S", "U", "B">>
OP_MULT == <<"M", "U", "L", "T">>
OP_DIV == <<"D", "I", "V">>
OP_CHAIN == <<"C", "H", "A", "I", "N">>
OP_IF == <<"I", "F">>
OP_ELSEIF == <<"E", "L", "S", "E", "I", "F">>
OP_ELSE == <<"E", "L", "S", "E">>
OP_ENDIF == <<"E", "N", "D", "I", "F">>

----------------------------------------------------------------------------
(* RPGConverter.convert_to_freeform *)

\* '\n'.join(lines)
Join(ls) ==
    LET f[i \in 0..Len(ls)] ==
          IF i = 0 THEN <<>>
          ELSE IF i = 1 THEN ls[1]
          ELSE f[i - 1] \o S_NEWLINE \o ls[i]
    IN f[Len(ls)]

\* text.split('\n'): one line more than there are newlines
Split(text) ==
    LET n == Len(text)
        breaks == { i \in 1..n : text[i] = "\n" }
        Break(k) ==
            IF k = 0 THEN 0
            ELSE IF k > Cardinality(breaks) THEN n + 1
            ELSE CHOOSE p \in breaks : Cardinality({ q \in breaks : q <= p }) = k
    IN [k \in 1..(Cardinality(breaks) + 1) |-> SubSeq(text, Break(k - 1) + 1, Break(k) - 1)]

\* the concatenation of Op(s[1]), Op(s[2]), ...: a for loop that extends a list
FlatMap(Op(_), s) ==
    LET f[i \in 0..Len(s)] == IF i = 0 THEN <<>> ELSE f[i - 1] \o Op(s[i])
    IN f[Len(s)]

Note(text, arg) == [text |-> text, arg |-> arg]

\* a faulty variant of line 287: the control statement is always emitted
EmitControlAlways(a) == <<S_CTL_OPT>>

\* lines 287-289
EmitControl(a) == IF a.control_specs # <<>> THEN <<S_CTL_OPT>> ELSE <<>>
NoteControl(a) ==
    IF a.control_specs # <<>> THEN <<Note("Converted H-spec to **CTL-OPT", <<>>)>>
    ELSE <<>>

\* lines 293-301: a declaration for the types I, O and U, none for any other
EmitFile(file_spec) ==
    LET filename == file_spec.filename
        file_type == Upper(file_spec.file_type)
    IN CASE file_type = <<"I">> -> << S_DCL_F \o filename \o S_USAGE_INPUT >>
         [] file_type = <<"O">> -> << S_DCL_F \o filename \o S_USAGE_OUTPUT >>
         [] file_type = <<"U">> -> << S_DCL_F \o filename \o S_USAGE_UPDATE >>
         [] OTHER -> <<>>

\* line 303: noted for every file entry
NoteFile(file_spec) == << Note("Converted F-spec for", file_spec.filename) >>

\* lines 307-311
EmitDefinition(def_spec) ==
    IF def_spec.name # <<>> THEN << S_DCL_S \o def_spec.name \o S_CHAR50 >> ELSE <<>>
NoteDefinition(def_spec) ==
    IF def_spec.name # <<>> THEN << Note("Converted D-spec for", def_spec.name) >>
    ELSE <<>>

\* lines 338-343
OpSymbol(operation) ==
    CASE operation = OP_ADD -> <<"+">>
      [] operation = OP_SUB -> <<"-">>
      [] operation = OP_MULT -> <<"*">>
      [] operation = OP_DIV -> <<"/">>
      [] OTHER -> <<"+">>

\* lines 337-351
EmitArithmetic(calc_spec, operation) ==
    LET res == calc_spec.result
        factor1 == Strip(Slice(calc_spec.content, 12, 25))
        factor2 == Strip(Slice(calc_spec.content, 26, 40))
    IN IF res = <<>> THEN <<>>
       ELSE IF factor1 # <<>> /\ factor2 # <<>>
       THEN << S_INDENT \o res \o S_ASSIGN \o factor1 \o S_SPACE
                 \o OpSymbol(operation) \o S_SPACE \o factor2 \o S_SEMI >>
       ELSE IF factor2 # <<>>
       THEN << S_INDENT \o res \o S_SPACE \o OpSymbol(operation) \o S_EQ
                 \o factor2 \o S_SEMI >>
       ELSE <<>>

\* lines 355-360
EmitChain(calc_spec) ==
    LET filename == calc_spec.result
        key_field == Strip(Slice(calc_spec.content, 12, 25))
    IN << S_CHAIN \o key_field \o S_SPACE \o filename \o S_SEMI,
          S_IF_NOT_FOUND \o filename \o S_CLOSE,
          S_HANDLE,
          S_ENDIF >>

\* lines 364-372
EmitStructured(calc_spec, operation) ==
    LET condition == Strip(Slice(calc_spec.content, 12, 49)) IN
    CASE operation = OP_IF -> << S_IF \o condition \o S_SEMI >>
      [] operation = OP_ELSEIF -> << S_ELSEIF \o condition \o S_SEMI >>
      [] operation = OP_ELSE -> << S_ELSE >>
      [] operation = OP_ENDIF -> << S_ENDIF >>
      [] OTHER -> <<>>

\* lines 318-372: the lines one calculation entry adds
EmitCalc(calc_spec) ==
    LET operation == Upper(calc_spec.operation) IN
    CASE operation = BEGSR -> << <<>>, S_DCL_PROC \o calc_spec.result \o S_SEMI >>
      [] operation = OP_ENDSR -> << S_END_PROC >>
      [] operation = OP_EXSR -> << S_INDENT \o calc_spec.result \o S_CALL >>
      [] operation \in {OP_ADD, OP_SUB, OP_MULT, OP_DIV} ->
           EmitArithmetic(calc_spec, operation)
      [] operation = OP_CHAIN -> EmitChain(calc_spec)
      [] operation \in {OP_IF, OP_ELSEIF, OP_ELSE, OP_ENDIF} ->
           EmitStructured(calc_spec, operation)
      [] OTHER -> <<>>

\* line 326
NoteCalc(calc_spec) ==
    IF Upper(calc_spec.operation) = BEGSR
    THEN << Note("Converted subroutine to procedure", calc_spec.result) >>
    ELSE <<>>

\* a faulty variant of lines 375-376: the warning is tied to a generated line
WarnCalcMapped(calc_spec) ==
    IF calc_spec.indicators # <<>> /\ EmitCalc(calc_spec) # <<>>
    THEN << Note("Indicator used - may need manual conversion", calc_spec.indicators) >>
    ELSE <<>>

\* lines 375-376
WarnCalc(calc_spec) ==
    IF calc_spec.indicators # <<>> /\ calc_spec.indicators \notin { <<>>, <<" ", " ">> }
    THEN << Note("Indicator used - may need manual conversion", calc_spec.indicators) >>
    ELSE <<>>

\* a faulty variant of lines 291-311: the definitions are emitted before the files
EmitLinesDefinitionsFirst(a) ==
    EmitControl(a)
      \o FlatMap(EmitDefinition, a.definition_specs)
      \o FlatMap(EmitFile, a.file_specs)
      \o << <<>>, S_MAIN >>
      \o FlatMap(EmitCalc, a.calculation_specs)

\* lines 284-372: converted_lines when the loops are through
EmitLines(a) ==
    EmitControl(a)
      \o FlatMap(EmitFile, a.file_specs)
      \o FlatMap(EmitDefinition, a.definition_specs)
      \o << <<>>, S_MAIN >>
      \o FlatMap(EmitCalc, a.calculation_specs)

\* conversion_notes when the loops are through
EmitNotes(a) ==
    NoteControl(a)
      \o FlatMap(NoteFile, a.file_specs)
      \o FlatMap(NoteDefinition, a.definition_specs)
      \o FlatMap(NoteCalc, a.calculation_specs)

\* warnings when the loops are through
EmitWarnings(a) == FlatMap(WarnCalc, a.calculation_specs)

\* line 400 and 401: the line is re-indented
NeedsIndent(line) ==
    /\ Strip(line) # <<>>
    /\ ~StartsWith(line, S_STARS)
    /\ ~StartsWith(line, S_DCL)
    /\ ~StartsWith(line, S_INDENT)

\* line 402, for every line of the list
StandardLines(ls) ==
    [i \in 1..Len(ls) |->
        IF NeedsIndent(ls[i]) THEN S_INDENT \o Strip(ls[i]) ELSE ls[i]]

AppliedNote(line) ==
    IF NeedsIndent(line) THEN << "Applied indentation standard" >> ELSE <<>>

\* the list _apply_coding_standards returns
AppliedStandards(ls) == FlatMap(AppliedNote, ls)

\* `if standards:` None and the empty dict are false
Truthy(st) == st = "hints"

\* a faulty variant of line 275: the original text is not kept
NewResultBlank(text) ==
    [original_code |-> <<>>, converted_code |-> <<>>, conversion_notes |-> <<>>,
     standards_applied |-> <<>>, warnings |-> <<>>, success |-> TRUE,
     error |-> "absent"]

\* lines 274-281; the dict has no "error" key until line 388 sets it
NewResult(text) ==
    [original_code |-> text, converted_code |-> <<>>, conversion_notes |-> <<>>,
     standards_applied |-> <<>>, warnings |-> <<>>, success |-> TRUE,
     error |-> "absent"]

\* lines 386-388: the handler of the try block
Failed(res) == [res EXCEPT !.success = FALSE, !.error = "set"]

----------------------------------------------------------------------------
(* Inputs of a conversion *)

\* the source texts of at most max lines over a set of lines
Texts(lineset, max) == UNION { [1..n -> lineset] : n \in 1..max }

\* a code argument that is not a str (None): it has no split method
NoneCode == <<"None">>

\* the standards argument: None, an empty dict, a dict of hints
StandardsChoices == { "none", "empty", "hints" }

DigitChars == <<"0", "1", "2", "3", "4", "5", "6", "7", "8", "9">>

\* a two-digit indicator
IndicatorText(k) == << DigitChars[(k \div 10) + 1], DigitChars[(k % 10) + 1] >>

\* a file line whose name starts at offset 11: columns 7 to 10 stay blank
CountedFileLine == MkLine(42, {P(5, <<"F">>), P(11, <<"C", "U", "S", "T">>), P(15, <<"I">>)})

\* the k-th calculation line of a text with ni conditioned lines and ns subroutines
CountedCalcLine(k, ni, ns) ==
    MkLine(56, { P(5, <<"C">>), P(50, <<"S", "R">> \o IndicatorText(k)) }
                 \cup (IF k <= ni THEN { P(7, IndicatorText(k)) } ELSE {})
                 \cup (IF k <= ns THEN { P(26, BEGSR) } ELSE { P(26, <<"M", "O", "V", "E">>) }))

\* a source of nf file lines and nc calculation lines, ni of them conditioned
\* by distinct indicators and ns of them starting a subroutine
CountedText(nf, nc, ni, ns) ==
    [i \in 1..(nf + nc) |->
        IF i <= nf THEN CountedFileLine ELSE CountedCalcLine(i - nf, ni, ns)]

\* the counts tried: around both thresholds, and 5, 40, 12, 3
CountChoices ==
    { c \in [nf : {0, 1, 5}, nc : {1, 9, 10, 40}, ni : {0, 1, 3, 12}, ns : {0, 1, 3}] :
        c.ni <= c.nc /\ c.ns <= c.nc }

----------------------------------------------------------------------------
(* convert_to_freeform, as the steps of one call *)

ChatIdle ==
    /\ messages = <<>>
    /\ current_messages = <<>>
    /\ tool_call_count = 0
    /\ max_tool_calls = 0
    /\ pc = "idle"
    /\ pending = <<>>
    /\ call_idx = 1
    /\ result = Unset
    /\ raised_by = "nobody"
    /\ next_id = 0
    /\ model_calls = 0
    /\ all_tool_answers = TRUE
    /\ last_response = NoResponse
    /\ invoked = <<>>
    /\ failed = {}

BatchIdle ==
    /\ code_segments = <<>>
    /\ seg_idx = 1
    /\ results = <<>>
    /\ total_complexity_score = 0
    /\ low_complexity = <<>>
    /\ medium_complexity = <<>>
    /\ high_complexity = <<>>
    /\ tpc = "idle"

BlocksIdle ==
    /\ doc = <<>>
    /\ doc_lines = <<>>
    /\ doc_idx = 1
    /\ traditional_block = <<>>
    /\ in_traditional_block = FALSE
    /\ code_blocks = <<>>
    /\ bpc = "idle"

ConvIdle ==
    /\ code = <<>>
    /\ standards = "none"
    /\ lines = <<>>
    /\ analysis = NewAnalysis
    /\ line_num = 1
    /\ cpc = "idle"
    /\ converted_lines = <<>>
    /\ conversion_result = NewResult(<<>>)

ConvStart(texts) ==
    /\ code \in { Join(t) : t \in texts } \cup { NoneCode }
    /\ standards \in StandardsChoices
    /\ lines = <<>>
    /\ analysis = NewAnalysis
    /\ line_num = 1
    /\ cpc = "call"
    /\ converted_lines = <<>>
    /\ conversion_result = NewResult(<<>>)

InitConv == ChatIdle /\ BlocksIdle /\ BatchIdle /\ ConvStart(Texts(Lines, MaxLines))

InitScore ==
    ChatIdle /\ BlocksIdle /\ BatchIdle /\ ConvStart({ CountedText(c.nf, c.nc, c.ni, c.ns) : c \in CountChoices })

\* lines 272, 155-170: analyze_traditional_rpg is entered, the text is split
Call ==
    /\ cpc = "call"
    /\ code # NoneCode
    /\ analysis' = NewAnalysis
    /\ lines' = Split(code)
    /\ line_num' = 1
    /\ cpc' = "scan"
    /\ UNCHANGED <<code, standards, converted_lines, conversion_result>>
    /\ UNCHANGED <<varsChat, varsBlocks, varsBatch>>

\* lines 272, 170: code.split fails on a code that is no str; line 272 is
\* outside the try block, so the failure leaves convert_to_freeform
AnalyzeRaise ==
    /\ cpc = "call"
    /\ code = NoneCode
    /\ cpc' = "raised"
    /\ UNCHANGED <<code, standards, lines, analysis, line_num, converted_lines,
                   conversion_result>>
    /\ UNCHANGED <<varsChat, varsBlocks, varsBatch>>

\* lines 172-232: one line of the loop
ScanLine ==
    /\ cpc = "scan"
    /\ line_num <= Len(lines)
    /\ analysis' = AnalyzeOneLine(analysis, line_num, lines[line_num])
    /\ line_num' = line_num + 1
    /\ UNCHANGED <<code, standards, lines, cpc, converted_lines, conversion_result>>
    /\ UNCHANGED <<varsChat, varsBlocks, varsBatch>>

\* lines 234-248: the loop is through; the complexity is set, the dict returned
ScanDone ==
    /\ cpc = "scan"
    /\ line_num > Len(lines)
    /\ analysis' = WithComplexity(analysis)
    /\ cpc' = "analyzed"
    /\ UNCHANGED <<code, standards, lines, line_num, converted_lines, conversion_result>>
    /\ UNCHANGED <<varsChat, varsBlocks, varsBatch>>

\* lines 274-376: the result dict, then the four emission loops
Emit ==
    /\ cpc = "analyzed"
    /\ converted_lines' = EmitLines(analysis)
    /\ conversion_result' =
           [NewResult(code) EXCEPT !.conversion_notes = EmitNotes(analysis),
                                   !.warnings = EmitWarnings(analysis)]
    /\ cpc' = "emitted"
    /\ UNCHANGED <<code, standards, lines, analysis, line_num>>
    /\ UNCHANGED <<varsChat, varsBlocks, varsBatch>>

\* lines 379-390: the standards pass over the list, the join, the return
Finish ==
    /\ cpc = "emitted"
    /\ LET final == IF Truthy(standards) THEN StandardLines(converted_lines)
                    ELSE converted_lines
       IN /\ converted_lines' = final
          /\ conversion_result' =
                 [conversion_result EXCEPT
                     !.standards_applied =
                         IF Truthy(standards) THEN AppliedStandards(converted_lines)
                         ELSE @,
                     !.converted_code = Join(final)]
    /\ cpc' = "done"
    /\ UNCHANGED <<code, standards, lines, analysis, line_num>>
    /\ UNCHANGED <<varsChat, varsBlocks, varsBatch>>

\* lines 283-390: an Exception raised inside the try block (before the first
\* append, or in the standards pass or the join) is caught at line 386; the
\* assignment of line 384 has not happened
Fail ==
    /\ cpc \in {"analyzed", "emitted"}
    /\ conversion_result' =
           Failed(IF cpc = "analyzed" THEN NewResult(code) ELSE conversion_result)
    /\ cpc' = "failed"
    /\ UNCHANGED <<code, standards, lines, analysis, line_num, converted_lines>>
    /\ UNCHANGED <<varsChat, varsBlocks, varsBatch>>

NextConv ==
    \/ Call
    \/ AnalyzeRaise
    \/ ScanLine
    \/ ScanDone
    \/ Emit
    \/ Finish
    \/ Fail

SpecConv == InitConv /\ [][NextConv]_vars

SpecScore == InitScore /\ [][NextConv]_vars

----------------------------------------------------------------------------
(* CodeAnalyzer.extract_code_blocks: the scan for traditional blocks.       *)
(* code_blocks holds the blocks this scan appends; the blocks the regular   *)
(* expressions of lines 453-471 find are of other types.                    *)

\* a line of blanks
L_BLANK == MkLine(8, {})

\* the lines the scanned texts are made of
BlockLines == { L_BLANK, L_SHORT, L_TEXT, L_C_ADD, L_LOWER_TAG }

\* line 478: the characters of 'HFDICOhfdico'
TagChars == {"H", "F", "D", "I", "C", "O", "h", "f", "d", "i", "c", "o"}

\* line 478: len(line) >= 6 and line[5:6] in 'HFDICOhfdico'
IsTagged(line) == Len(line) >= 6 /\ line[6] \in TagChars

\* lines 487-492 and 497-502: the dict of a traditional block
TraditionalBlock(block) ==
    [type |-> "RPG Traditional", code |-> Join(block), language |-> "rpg",
     format |-> "traditional"]

\* a faulty variant of lines 496-502: the block still open at the end is lost
FlushNever(block, blocks) == blocks

\* lines 496-502: the block still open at the end of the text
FlushAtEnd(block, blocks) ==
    IF block # <<>> THEN Append(blocks, TraditionalBlock(block)) ELSE blocks

InitBlocks ==
    /\ ChatIdle
    /\ ConvIdle
    /\ BatchIdle
    /\ doc \in { Join(t) : t \in Texts(BlockLines, MaxBlockLines) }
    /\ doc_lines = <<>>
    /\ doc_idx = 1
    /\ traditional_block = <<>>
    /\ in_traditional_block = FALSE
    /\ code_blocks = <<>>
    /\ bpc = "call"

\* lines 473-475
SplitText ==
    /\ bpc = "call"
    /\ doc_lines' = Split(doc)
    /\ doc_idx' = 1
    /\ traditional_block' = <<>>
    /\ in_traditional_block' = FALSE
    /\ bpc' = "scan"
    /\ UNCHANGED <<doc, code_blocks>>
    /\ UNCHANGED <<varsChat, varsConv, varsBatch>>

\* lines 478-482: a tagged line opens a block or extends the open one
ScanTagged ==
    /\ bpc = "scan"
    /\ doc_idx <= Len(doc_lines)
    /\ IsTagged(doc_lines[doc_idx])
    /\ in_traditional_block' = TRUE
    /\ traditional_block' =
           Append(IF in_traditional_block THEN traditional_block ELSE <<>>,
                  doc_lines[doc_idx])
    /\ doc_idx' = doc_idx + 1
    /\ UNCHANGED <<doc, doc_lines, code_blocks, bpc>>
    /\ UNCHANGED <<varsChat, varsConv, varsBatch>>

\* lines 483-484, and a line outside a block that matches no branch
ScanSkip ==
    /\ bpc = "scan"
    /\ doc_idx <= Len(doc_lines)
    /\ ~IsTagged(doc_lines[doc_idx])
    /\ \/ in_traditional_block /\ Strip(doc_lines[doc_idx]) = <<>>
       \/ ~in_traditional_block
    /\ doc_idx' = doc_idx + 1
    /\ UNCHANGED <<doc, doc_lines, traditional_block, in_traditional_block,
                   code_blocks, bpc>>
    /\ UNCHANGED <<varsChat, varsConv, varsBatch>>

\* lines 485-494: a non-blank line without a tag closes the block
ScanClose ==
    /\ bpc = "scan"
    /\ doc_idx <= Len(doc_lines)
    /\ ~IsTagged(doc_lines[doc_idx])
    /\ in_traditional_block
    /\ Strip(doc_lines[doc_idx]) # <<>>
    /\ code_blocks' =
           (IF traditional_block # <<>>
            THEN Append(code_blocks, TraditionalBlock(traditional_block))
            ELSE code_blocks)
    /\ traditional_block' = (IF traditional_block # <<>> THEN <<>> ELSE traditional_block)
    /\ in_traditional_block' = FALSE
    /\ doc_idx' = doc_idx + 1
    /\ UNCHANGED <<doc, doc_lines, bpc>>
    /\ UNCHANGED <<varsChat, varsConv, varsBatch>>

\* lines 496-504: the loop is through
ScanEnd ==
    /\ bpc = "scan"
    /\ doc_idx > Len(doc_lines)
    /\ code_blocks' = FlushAtEnd(traditional_block, code_blocks)
    /\ bpc' = "done"
    /\ UNCHANGED <<doc, doc_lines, doc_idx, traditional_block, in_traditional_block>>
    /\ UNCHANGED <<varsChat, varsConv, varsBatch>>

NextBlocks ==
    \/ SplitText
    \/ ScanTagged
    \/ ScanSkip
    \/ ScanClose
    \/ ScanEnd

SpecBlocks == InitBlocks /\ [][NextBlocks]_vars

----------------------------------------------------------------------------
(* call_tool, the branch batch_analyze_rpg (lines 976-1022).  The call of    *)
(* analyze_traditional_rpg at line 996 runs on that function's own locals:  *)
(* lines, analysis, line_num.                                               *)

\* a faulty variant of lines 999-1003: the markers weigh 2
BatchScoreLight(a) ==
    Len(a.file_specs) * 2 + Len(a.calculation_specs)
      + Len(a.indicators) * 2 + Len(a.subroutines) * 2

\* lines 999-1003: the score is computed again from the analysis
BatchScore(a) ==
    Len(a.file_specs) * 2 + Len(a.calculation_specs)
      + Len(a.indicators) * 3 + Len(a.subroutines) * 2

\* lines 1005-1010; "lines" is len(segment_code.split('\n'))
SegmentResult(a, text) ==
    [analysis |-> a, complexity_score |-> BatchScore(a), lines |-> Len(Split(text))]

\* lines 1020-1022
IsLowComplexity(r) == r.complexity_score < 10
IsMediumComplexity(r) == 10 <= r.complexity_score /\ r.complexity_score < 30
IsHighComplexity(r) == r.complexity_score >= 30

\* the counts of the segments tried: scores 1, 9, 10, 29, 30 and 92
BatchCounts ==
    { [nf |-> 0, nc |-> 1, ni |-> 0, ns |-> 0],
      [nf |-> 0, nc |-> 9, ni |-> 0, ns |-> 0],
      [nf |-> 0, nc |-> 10, ni |-> 0, ns |-> 0],
      [nf |-> 5, nc |-> 10, ni |-> 3, ns |-> 0],
      [nf |-> 5, nc |-> 9, ni |-> 3, ns |-> 1],
      [nf |-> 5, nc |-> 40, ni |-> 12, ns |-> 3] }

\* segment.get("code", ""): a segment without code, or one of the texts
SegmentCodes ==
    { <<>> } \cup { Join(CountedText(c.nf, c.nc, c.ni, c.ns)) : c \in BatchCounts }

InitBatch ==
    /\ ChatIdle
    /\ ConvIdle
    /\ BlocksIdle
    /\ code_segments \in UNION { [1..n -> SegmentCodes] : n \in 0..MaxSegments }
    /\ seg_idx = 1
    /\ results = <<>>
    /\ total_complexity_score = 0
    /\ low_complexity = <<>>
    /\ medium_complexity = <<>>
    /\ high_complexity = <<>>
    /\ tpc = "call"

\* lines 980-983: no segments, the request is answered with a prompt
BatchNothing ==
    /\ tpc = "call"
    /\ code_segments = <<>>
    /\ tpc' = "done"
    /\ UNCHANGED <<code_segments, seg_idx, results, total_complexity_score,
                   low_complexity, medium_complexity, high_complexity>>
    /\ UNCHANGED <<varsChat, varsConv, varsBlocks>>

\* lines 985-988
BatchStart ==
    /\ tpc = "call"
    /\ code_segments # <<>>
    /\ results' = <<>>
    /\ total_complexity_score' = 0
    /\ seg_idx' = 1
    /\ tpc' = "segments"
    /\ UNCHANGED <<code_segments, low_complexity, medium_complexity, high_complexity>>
    /\ UNCHANGED <<varsChat, varsConv, varsBlocks>>

\* lines 992-993: a segment without code is passed over
BatchSkip ==
    /\ tpc = "segments"
    /\ seg_idx <= Len(code_segments)
    /\ code_segments[seg_idx] = <<>>
    /\ seg_idx' = seg_idx + 1
    /\ UNCHANGED <<code_segments, results, total_complexity_score, low_complexity,
                   medium_complexity, high_complexity, tpc>>
    /\ UNCHANGED <<varsChat, varsConv, varsBlocks>>

\* lines 996, 155-170: analyze_traditional_rpg is entered with the segment
BatchCall ==
    /\ tpc = "segments"
    /\ seg_idx <= Len(code_segments)
    /\ code_segments[seg_idx] # <<>>
    /\ analysis' = NewAnalysis
    /\ lines' = Split(code_segments[seg_idx])
    /\ line_num' = 1
    /\ tpc' = "analyzing"
    /\ UNCHANGED <<code_segments, seg_idx, results, total_complexity_score,
                   low_complexity, medium_complexity, high_complexity>>
    /\ UNCHANGED <<code, standards, cpc, converted_lines, conversion_result>>
    /\ UNCHANGED <<varsChat, varsBlocks>>

\* lines 172-232: one line of the loop of analyze_traditional_rpg
BatchScanLine ==
    /\ tpc = "analyzing"
    /\ line_num <= Len(lines)
    /\ analysis' = AnalyzeOneLine(analysis, line_num, lines[line_num])
    /\ line_num' = line_num + 1
    /\ UNCHANGED varsBatch
    /\ UNCHANGED <<code, standards, lines, cpc, converted_lines, conversion_result>>
    /\ UNCHANGED <<varsChat, varsBlocks>>

\* lines 234-248, 999-1012: the analysis returns; the segment is scored
BatchSegment ==
    /\ tpc = "analyzing"
    /\ line_num > Len(lines)
    /\ analysis' = WithComplexity(analysis)
    /\ LET r == SegmentResult(WithComplexity(analysis), code_segments[seg_idx]) IN
       /\ results' = Append(results, r)
       /\ total_complexity_score' = total_complexity_score + r.complexity_score
    /\ seg_idx' = seg_idx + 1
    /\ tpc' = "segments"
    /\ UNCHANGED <<code_segments, low_complexity, medium_complexity, high_complexity>>
    /\ UNCHANGED <<code, standards, lines, line_num, cpc, converted_lines,
                   conversion_result>>
    /\ UNCHANGED <<varsChat, varsBlocks>>

\* lines 1014-1022: the report; the three lists
BatchReport ==
    /\ tpc = "segments"
    /\ seg_idx > Len(code_segments)
    /\ results # <<>>
    /\ low_complexity' = SelectSeq(results, IsLowComplexity)
    /\ medium_complexity' = SelectSeq(results, IsMediumComplexity)
    /\ high_complexity' = SelectSeq(results, IsHighComplexity)
    /\ tpc' = "done"
    /\ UNCHANGED <<code_segments, seg_idx, results, total_complexity_score>>
    /\ UNCHANGED <<varsChat, varsConv, varsBlocks>>

\* line 1017: total_complexity_score / len(results) with no result divides by zero
BatchReportFails ==
    /\ tpc = "segments"
    /\ seg_idx > Len(code_segments)
    /\ results = <<>>
    /\ tpc' = "raised"
    /\ UNCHANGED <<code_segments, seg_idx, results, total_complexity_score,
                   low_complexity, medium_complexity, high_complexity>>
    /\ UNCHANGED <<varsChat, varsConv, varsBlocks>>

NextBatch ==
    \/ BatchNothing
    \/ BatchStart
    \/ BatchSkip
    \/ BatchCall
    \/ BatchScanLine
    \/ BatchSegment
    \/ BatchReport
    \/ BatchReportFails

SpecBatch == InitBatch /\ [][NextBatch]_vars

----------------------------------------------------------------------------
(* chat_completion *)

InitChat ==
    /\ ConvIdle
    /\ BlocksIdle
    /\ BatchIdle
    /\ messages \in InitialMessageLists
    /\ current_messages = <<>>
    /\ tool_call_count = 0
    /\ max_tool_calls \in 0..MaxRounds
    /\ pc = "start"
    /\ pending = <<>>
    /\ call_idx = 1
    /\ result = Unset
    /\ raised_by = "nobody"
    /\ next_id = 0
    /\ model_calls = 0
    /\ all_tool_answers = TRUE
    /\ last_response = NoResponse
    /\ invoked = <<>>
    /\ failed = {}

obsUnchanged == UNCHANGED <<model_calls, all_tool_answers, last_response, invoked,
                            failed>>

\* line 202 looked the other way round: one round too many
LoopContinuesInclusive == tool_call_count <= max_tool_calls

\* line 202: while tool_call_count < max_tool_calls
LoopContinues == tool_call_count < max_tool_calls

\* line 192 fails: the failure of get_available_tools leaves chat_completion
GetToolsFail ==
    /\ pc = "start"
    /\ pc' = "raised"
    /\ raised_by' = "catalog"
    /\ UNCHANGED <<messages, current_messages, tool_call_count, max_tool_calls,
                   pending, call_idx, result, next_id>>
    /\ obsUnchanged
    /\ UNCHANGED <<varsConv, varsBlocks, varsBatch>>

\* lines 192-200: the catalogue, the shallow copy, the truncation of every
\* message of the copy; the copy holds the caller's dicts, so the caller's
\* list sees the truncated contents too
Enter ==
    /\ pc = "start"
    /\ current_messages' = TruncateAll(messages)
    /\ messages' = TruncateAll(messages)
    /\ tool_call_count' = 0
    /\ pc' = "loop"
    /\ UNCHANGED <<max_tool_calls, pending, call_idx, result, raised_by, next_id>>
    /\ obsUnchanged
    /\ UNCHANGED <<varsConv, varsBlocks, varsBatch>>

\* line 202 false, line 273
ReturnSentinel ==
    /\ pc = "loop"
    /\ ~LoopContinues
    /\ result' = Sentinel
    /\ pc' = "returned"
    /\ UNCHANGED <<messages, current_messages, tool_call_count, max_tool_calls,
                   pending, call_idx, raised_by, next_id>>
    /\ obsUnchanged
    /\ UNCHANGED <<varsConv, varsBlocks, varsBatch>>

\* a faulty variant: the failure of line 204 is caught and the sentinel returned
ModelRaiseCaught ==
    /\ pc = "loop"
    /\ LoopContinues
    /\ model_calls' = model_calls + 1
    /\ last_response' = RaiseOutcome
    /\ all_tool_answers' = FALSE
    /\ pc' = "returned"
    /\ result' = Sentinel
    /\ UNCHANGED <<messages, current_messages, tool_call_count, max_tool_calls,
                   pending, call_idx, raised_by, next_id, invoked, failed>>
    /\ UNCHANGED <<varsConv, varsBlocks, varsBatch>>

\* line 204 raises: nothing in chat_completion catches it
ModelRaise ==
    /\ pc = "loop"
    /\ LoopContinues
    /\ model_calls' = model_calls + 1
    /\ last_response' = RaiseOutcome
    /\ all_tool_answers' = FALSE
    /\ pc' = "raised"
    /\ raised_by' = "model"
    /\ UNCHANGED <<messages, current_messages, tool_call_count, max_tool_calls,
                   pending, call_idx, result, next_id, invoked, failed>>
    /\ UNCHANGED <<varsConv, varsBlocks, varsBatch>>

\* a faulty variant of lines 215-216: the answer is appended before it is returned
ModelFinalAppends ==
    /\ pc = "loop"
    /\ LoopContinues
    /\ \E c \in ModelContents :
          /\ last_response' = MessageOutcome(c, <<>>)
          /\ result' = c
          /\ current_messages' = Append(current_messages, AssistantMsg(c, <<>>))
    /\ model_calls' = model_calls + 1
    /\ all_tool_answers' = FALSE
    /\ pc' = "returned"
    /\ UNCHANGED <<messages, tool_call_count, max_tool_calls,
                   pending, call_idx, raised_by, next_id, invoked, failed>>
    /\ UNCHANGED <<varsConv, varsBlocks, varsBatch>>

\* lines 204-216: an answer without tool calls is returned
ModelFinal ==
    /\ pc = "loop"
    /\ LoopContinues
    /\ \E c \in ModelContents :
          /\ last_response' = MessageOutcome(c, <<>>)
          /\ result' = c
    /\ model_calls' = model_calls + 1
    /\ all_tool_answers' = FALSE
    /\ pc' = "returned"
    /\ UNCHANGED <<messages, current_messages, tool_call_count, max_tool_calls,
                   pending, call_idx, raised_by, next_id, invoked, failed>>
    /\ UNCHANGED <<varsConv, varsBlocks, varsBatch>>

\* lines 204-233: an answer with tool calls; the assistant message is appended
ModelToolCalls ==
    /\ pc = "loop"
    /\ LoopContinues
    /\ \E n \in 1..MaxCalls : \E args \in ArgChoices(n) : \E c \in ToolCallContents :
          /\ next_id + n <= MaxTotalCalls
          /\ LET calls == MakeCalls(args, next_id) IN
             /\ last_response' = MessageOutcome(c, calls)
             /\ pending' = calls
             /\ current_messages' = Append(current_messages, AssistantMsg(c, calls))
          /\ next_id' = next_id + n
    /\ model_calls' = model_calls + 1
    /\ call_idx' = 1
    /\ pc' = "tools"
    /\ UNCHANGED <<messages, tool_call_count, max_tool_calls, result, raised_by,
                   all_tool_answers, invoked, failed>>
    /\ UNCHANGED <<varsConv, varsBlocks, varsBatch>>

\* the loop of line 236 moves to the next call, or leaves for line 265
AfterCall == IF call_idx + 1 > Len(pending) THEN "endround" ELSE "tools"

\* a faulty variant of lines 239-245: the tool is called before the arguments
\* are parsed
ToolParseFailInvokes ==
    /\ pc = "tools"
    /\ call_idx <= Len(pending)
    /\ ~pending[call_idx].args_ok
    /\ \E e \in ParseErrorLens :
          current_messages' =
              Append(current_messages, ToolErrorMsg(pending[call_idx].id, e))
    /\ invoked' = Append(invoked, pending[call_idx].id)
    /\ failed' = failed \cup {pending[call_idx].id}
    /\ call_idx' = call_idx + 1
    /\ pc' = AfterCall
    /\ UNCHANGED <<messages, tool_call_count, max_tool_calls, pending, result,
                   raised_by, next_id, model_calls, all_tool_answers, last_response>>
    /\ UNCHANGED <<varsConv, varsBlocks, varsBatch>>

\* lines 239, 257-263: json.loads fails; the tool is not called
ToolParseFail ==
    /\ pc = "tools"
    /\ call_idx <= Len(pending)
    /\ ~pending[call_idx].args_ok
    /\ \E e \in ParseErrorLens :
          current_messages' =
              Append(current_messages, ToolErrorMsg(pending[call_idx].id, e))
    /\ failed' = failed \cup {pending[call_idx].id}
    /\ call_idx' = call_idx + 1
    /\ pc' = AfterCall
    /\ UNCHANGED <<messages, tool_call_count, max_tool_calls, pending, result,
                   raised_by, next_id, model_calls, all_tool_answers, last_response,
                   invoked>>
    /\ UNCHANGED <<varsConv, varsBlocks, varsBatch>>

\* lines 239-255: the tool returns a text, truncated to the tool budget
ToolOk ==
    /\ pc = "tools"
    /\ call_idx <= Len(pending)
    /\ pending[call_idx].args_ok
    /\ \E n \in ToolResultLens :
          current_messages' =
              Append(current_messages,
                     ToolResultMsg(pending[call_idx].id, Text(n, "result")))
    /\ invoked' = Append(invoked, pending[call_idx].id)
    /\ call_idx' = call_idx + 1
    /\ pc' = AfterCall
    /\ UNCHANGED <<messages, tool_call_count, max_tool_calls, pending, result,
                   raised_by, next_id, model_calls, all_tool_answers, last_response,
                   failed>>
    /\ UNCHANGED <<varsConv, varsBlocks, varsBatch>>

\* a faulty variant of lines 257-263: no except clause, the failure leaves the loop
ToolFailEscapes ==
    /\ pc = "tools"
    /\ call_idx <= Len(pending)
    /\ pending[call_idx].args_ok
    /\ invoked' = Append(invoked, pending[call_idx].id)
    /\ failed' = failed \cup {pending[call_idx].id}
    /\ pc' = "raised"
    /\ raised_by' = "tool"
    /\ UNCHANGED <<messages, current_messages, tool_call_count, max_tool_calls, pending,
                   call_idx, result, next_id, model_calls, all_tool_answers,
                   last_response>>
    /\ UNCHANGED <<varsConv, varsBlocks, varsBatch>>

\* lines 242-245, 257-263: call_tool raises
ToolFail ==
    /\ pc = "tools"
    /\ call_idx <= Len(pending)
    /\ pending[call_idx].args_ok
    /\ \E e \in ErrorLens :
          current_messages' =
              Append(current_messages, ToolErrorMsg(pending[call_idx].id, e))
    /\ invoked' = Append(invoked, pending[call_idx].id)
    /\ failed' = failed \cup {pending[call_idx].id}
    /\ call_idx' = call_idx + 1
    /\ pc' = AfterCall
    /\ UNCHANGED <<messages, tool_call_count, max_tool_calls, pending, result,
                   raised_by, next_id, model_calls, all_tool_answers, last_response>>
    /\ UNCHANGED <<varsConv, varsBlocks, varsBatch>>

\* lines 265-271: the round is counted, then the budget check and the eviction
EndRound ==
    /\ pc = "endround"
    /\ tool_call_count' = tool_call_count + 1
    /\ current_messages' = Evict(current_messages)
    /\ pc' = "loop"
    /\ UNCHANGED <<messages, max_tool_calls, pending, call_idx, result, raised_by,
                   next_id>>
    /\ obsUnchanged
    /\ UNCHANGED <<varsConv, varsBlocks, varsBatch>>

NextChat ==
    \/ GetToolsFail
    \/ Enter
    \/ ReturnSentinel
    \/ ModelRaise
    \/ ModelFinal
    \/ ModelToolCalls
    \/ ToolParseFail
    \/ ToolOk
    \/ ToolFail
    \/ EndRound

SpecChat == InitChat /\ [][NextChat]_vars

\* every await of chat_completion completes: the model and the tools answer or fail
FairSpecChat == SpecChat /\ WF_vars(NextChat)

Terminated == pc \in {"returned", "raised"}

----------------------------------------------------------------------------
(* Properties of chat_completion *)

\* the elements of a sequence
Range(s) == { s[i] : i \in 1..Len(s) }

\* C1: for every max_tool_calls >= 0, a run whose every model answer carries
\* tool calls ends by returning the sentinel after exactly max_tool_calls model
\* invocations (a return, not a failure), and every run ends.  Stated for the
\* runs whose tool catalogue was fetched (line 192), which is where the loop
\* starts.
C1_SentinelAtMaxRounds ==
    /\ [](Terminated /\ raised_by # "catalog" /\ all_tool_answers
            => /\ pc = "returned"
               /\ result = Sentinel
               /\ model_calls = max_tool_calls)
    /\ <>Terminated

\* a run of MaxRounds rounds, every answer with tool calls, ended by the sentinel
C1_Witness ==
    /\ pc = "returned"
    /\ all_tool_answers
    /\ max_tool_calls = MaxRounds
    /\ model_calls = MaxRounds
    /\ tool_call_count = MaxRounds
    /\ result = Sentinel

\* C2: a model answer without tool calls is returned at once: its text is the
\* result, nothing is appended to the transcript, no tool is invoked, and after
\* the return neither the model nor a tool is invoked again.
C2_FinalAnswerReturned ==
    /\ [][(/\ model_calls' = model_calls + 1
           /\ last_response'.kind = "message"
           /\ last_response'.tool_calls = <<>>)
            => /\ pc' = "returned"
               /\ result' = last_response'.content
               /\ result' # Sentinel
               /\ current_messages' = current_messages
               /\ invoked' = invoked
               /\ failed' = failed]_vars
    /\ [][pc = "returned"
            => /\ pc' = "returned"
               /\ result' = result
               /\ model_calls' = model_calls
               /\ invoked' = invoked
               /\ current_messages' = current_messages]_vars

\* a text answer returned in a round after one with tool calls
C2_Witness ==
    /\ pc = "returned"
    /\ tool_call_count >= 1
    /\ tool_call_count < max_tool_calls
    /\ last_response.kind = "message"
    /\ last_response.tool_calls = <<>>
    /\ result = last_response.content
    /\ result.kind = "model"
    /\ current_messages[Len(current_messages)].role = "tool"

\* C3: a call whose argument parsing or invocation fails gets exactly one
\* tool-role message with its id and an error text; the calls after it in the
\* round are still executed, the round is counted, the loop goes back to the
\* model, and the failure does not leave chat_completion.
C3_ToolFailureContained ==
    /\ [][failed' # failed
            => /\ pc = "tools"
               /\ call_idx <= Len(pending)
               /\ failed' = failed \cup {pending[call_idx].id}
               /\ Len(current_messages') = Len(current_messages) + 1
               /\ SubSeq(current_messages', 1, Len(current_messages)) = current_messages
               /\ LET m == current_messages'[Len(current_messages')] IN
                    /\ m.role = "tool"
                    /\ m.tool_call_id = pending[call_idx].id
                    /\ m.content.kind = "error"
               /\ call_idx' = call_idx + 1
               /\ pending' = pending
               /\ pc' = (IF call_idx < Len(pending) THEN "tools" ELSE "endround")]_vars
    /\ [][pc = "endround"
            => /\ call_idx = Len(pending) + 1
               /\ tool_call_count' = tool_call_count + 1
               /\ pc' = "loop"]_vars
    /\ [](pc = "raised" => raised_by \in {"catalog", "model"})

\* a failed call followed in its round by another call, and the model invoked
\* again after that round
C3_Witness ==
    /\ model_calls >= 2
    /\ \E i \in 1..(Len(current_messages) - 1) :
          /\ current_messages[i].role = "tool"
          /\ current_messages[i].content.kind = "error"
          /\ current_messages[i].tool_call_id \in failed
          /\ current_messages[i + 1].role = "tool"
          /\ current_messages[i + 1].content.kind = "result"

\* C4: whenever the transcript is handed to the model, every tool-role message
\* in it is preceded by an assistant message whose tool-call list holds its id.
C4_ToolMessagesFollowTheirRequest ==
    (pc = "loop" /\ LoopContinues)
      => \A i \in 1..Len(current_messages) :
            current_messages[i].role = "tool"
              => \E j \in 1..(i - 1) :
                    /\ current_messages[j].role = "assistant"
                    /\ current_messages[i].tool_call_id
                          \in Range(current_messages[j].tool_calls)

\* C5: when the end-of-round check finds more than 80% of 128000 estimated
\* tokens, the transcript after the round is the last 5 messages of the
\* transcript before it, in order (all of them when there were fewer).
C5_EvictionKeepsLastFive ==
    [][(pc = "endround" /\ TotalTokens(current_messages) * 10 > 128000 * 8)
         => /\ Len(current_messages') <= 5
            /\ Len(current_messages') =
                  (IF Len(current_messages) < 5 THEN Len(current_messages) ELSE 5)
            /\ \A i \in 1..Len(current_messages') :
                  current_messages'[i] =
                     current_messages[Len(current_messages) - Len(current_messages') + i]]_vars

\* a transcript of five messages whose first is a tool message: the initial
\* message and an assistant message were evicted
C5_Witness ==
    /\ pc = "loop"
    /\ tool_call_count >= 2
    /\ Len(current_messages) = 5
    /\ current_messages[1].role = "tool"

\* C6: a failure of the model capability ends the run with that failure:
\* nothing is appended, no tool is invoked afterwards, nothing is returned.
C6_ModelFailurePropagates ==
    /\ [][(model_calls' = model_calls + 1 /\ last_response'.kind = "raise")
            => /\ pc' = "raised"
               /\ raised_by' = "model"
               /\ current_messages' = current_messages
               /\ invoked' = invoked
               /\ result' = Unset]_vars
    /\ [][pc = "raised"
            => /\ pc' = "raised"
               /\ current_messages' = current_messages
               /\ invoked' = invoked
               /\ model_calls' = model_calls
               /\ result' = Unset]_vars

\* the model failed in a round after one with tool calls
C6_Witness ==
    /\ pc = "raised"
    /\ raised_by = "model"
    /\ tool_call_count >= 1
    /\ invoked # <<>>
    /\ result = Unset

\* C17: a round with the requests c1..cn appends the assistant message that
\* lists them in order and then one tool message per request, the i-th with
\* the id of ci; a tool is invoked for a request only when the tool messages
\* of the requests before it are in the transcript.
C17_RoundAppendsRequestThenAnswers ==
    /\ [][(pc = "loop" /\ pc' = "tools")
            => /\ Len(current_messages') = Len(current_messages) + 1
               /\ SubSeq(current_messages', 1, Len(current_messages)) = current_messages
               /\ current_messages'[Len(current_messages')].role = "assistant"
               /\ current_messages'[Len(current_messages')].tool_calls
                     = [i \in 1..Len(pending') |-> pending'[i].id]
               /\ Len(pending') >= 1
               /\ call_idx' = 1]_vars
    /\ [][pc = "tools"
            => /\ call_idx <= Len(pending)
               /\ Len(current_messages') = Len(current_messages) + 1
               /\ SubSeq(current_messages', 1, Len(current_messages)) = current_messages
               /\ current_messages'[Len(current_messages')].role = "tool"
               /\ current_messages'[Len(current_messages')].tool_call_id
                     = pending[call_idx].id
               /\ invoked' \in {invoked, Append(invoked, pending[call_idx].id)}
               /\ pending' = pending
               /\ call_idx' = call_idx + 1]_vars
    /\ [][invoked' # invoked => pc = "tools"]_vars
    /\ [](pc \in {"tools", "endround"}
            => LET k == call_idx - 1
                   n == Len(current_messages)
               IN /\ pc = "endround" <=> k = Len(pending)
                  /\ n >= k + 1
                  /\ current_messages[n - k].role = "assistant"
                  /\ current_messages[n - k].tool_calls
                        = [i \in 1..Len(pending) |-> pending[i].id]
                  /\ \A i \in 1..k :
                        /\ current_messages[n - k + i].role = "tool"
                        /\ current_messages[n - k + i].tool_call_id = pending[i].id)

\* a round of two requests, both invoked, at its end
C17_Witness ==
    /\ pc = "endround"
    /\ Len(pending) = 2
    /\ Len(invoked) >= 2
    /\ invoked[Len(invoked)] = pending[2].id
    /\ current_messages[Len(current_messages)].tool_call_id = pending[2].id
    /\ current_messages[Len(current_messages) - 1].tool_call_id = pending[1].id
    /\ current_messages[Len(current_messages) - 2].role = "assistant"

\* C18: whenever the model is about to be invoked, every message of the
\* transcript has a content of at most 100000 estimated tokens.
C18_EveryMessageWithinBudget ==
    (pc = "loop" /\ LoopContinues)
      => \A i \in 1..Len(current_messages) :
            current_messages[i].content.len \div 4 <= 100000

\* C19: every tool-role message of the transcript, result or error, has a text
\* of at most 10000 estimated tokens, and 10000 is below the message budget.
C19_ToolMessagesWithinToolBudget ==
    /\ ToolBudget < MessageBudget
    /\ \A i \in 1..Len(current_messages) :
          current_messages[i].role = "tool"
            => current_messages[i].content.len \div 4 <= 10000

\* C20: after the end-of-round step of any round the transcript is at most
\* 80% of 128000 estimated tokens.
C20_TranscriptWithinLimitAfterRound ==
    (pc = "loop" /\ tool_call_count >= 1)
      => TotalTokens(current_messages) * 10 <= 128000 * 8

\* C29: no step of chat_completion changes the caller's message list:
\* its length and the content of its messages stay as they were.
C29_CallerListUntouched ==
    [][/\ Len(messages') = Len(messages)
       /\ \A i \in 1..Len(messages) : messages'[i].content = messages[i].content]_vars

\* C30: a request is handed to the tool invoker at most once, and never when
\* its arguments do not parse; between rounds every request issued so far was
\* either invoked once or failed to parse.
C30_EachRequestInvokedAtMostOnce ==
    /\ [][invoked' # invoked
            => /\ pc = "tools"
               /\ pending[call_idx].args_ok
               /\ pending[call_idx].id \notin Range(invoked)
               /\ invoked' = Append(invoked, pending[call_idx].id)]_vars
    /\ [][(pc = "tools" /\ pending[call_idx].args_ok)
            => invoked' = Append(invoked, pending[call_idx].id)]_vars
    /\ [][(pc = "tools" /\ ~pending[call_idx].args_ok)
            => /\ invoked' = invoked
               /\ pending[call_idx].id \in failed']_vars
    /\ [](\A i, j \in 1..Len(invoked) : invoked[i] = invoked[j] => i = j)
    /\ [](pc \in {"loop", "returned", "raised"}
            => /\ Range(invoked) \cup failed = 1..next_id
               /\ Len(invoked) + Cardinality(failed \ Range(invoked)) = next_id)

\* more invocations than max_tool_calls: rounds are bounded, calls are not;
\* one request of the run did not parse and was not invoked
C30_Witness ==
    /\ pc = "returned"
    /\ result = Sentinel
    /\ Len(invoked) > max_tool_calls
    /\ failed \ Range(invoked) # {}
    /\ failed \cap Range(invoked) # {}

----------------------------------------------------------------------------
(* Properties of analyze_traditional_rpg and convert_to_freeform *)

\* the lines of s that start with prefix
LinesStarting(ls, prefix) ==
    { i \in 1..Len(ls) :
        Len(ls[i]) >= Len(prefix)
          /\ \A k \in 1..Len(prefix) : ls[i][k] = prefix[k] }

\* C7: a line shorter than 6 characters leaves the analysis as it was: no
\* entry, no condition marker, no subroutine name, no count.
C7_ShortLineAddsNothing ==
    [][(cpc = "scan" /\ line_num <= Len(lines) /\ Len(lines[line_num]) < 6)
         => analysis' = analysis]_vars

\* a counted line followed by a line of five characters, both scanned
C7_Witness ==
    /\ cpc = "scan"
    /\ line_num = 3
    /\ Len(lines[1]) >= 6
    /\ Len(lines[2]) = 5
    /\ analysis.fixed_format_lines = 1

\* C8: every field of a file entry and of a calculation entry is the trimmed
\* slice of its line at the fixed offsets, the file-type code [15,16) included.
C8_FieldsAreTrimmedSlices ==
    /\ \A i \in 1..Len(analysis.file_specs) :
          LET e == analysis.file_specs[i]
              l == lines[e.line]
          IN /\ RecordType(l) = <<"F">>
             /\ e.filename = Strip(Slice(l, 7, 15))
             /\ e.file_type = Strip(Slice(l, 15, 16))
             /\ e.device = Strip(Slice(l, 35, 42))
    /\ \A i \in 1..Len(analysis.calculation_specs) :
          LET e == analysis.calculation_specs[i]
              l == lines[e.line]
          IN /\ RecordType(l) = <<"C">>
             /\ e.indicators = Strip(Slice(l, 7, 11))
             /\ e.operation = Strip(Slice(l, 26, 36))
             /\ e.result = Strip(Slice(l, 50, 63))

\* C9: the classification is low, medium or high as the score
\* 2*files + calculations + 3*distinct markers + 2*subroutines is below 10,
\* below 30, or not.
C9_ComplexityFromCounts ==
    cpc \in {"analyzed", "emitted", "done"}
      => LET score == 2 * Len(analysis.file_specs)
                        + Len(analysis.calculation_specs)
                        + 3 * Cardinality(Range(analysis.indicators))
                        + 2 * Len(analysis.subroutines)
         IN analysis.conversion_complexity =
               (CASE score < 10 -> "low"
                  [] score >= 10 /\ score < 30 -> "medium"
                  [] score >= 30 -> "high")

\* the counts 5, 40, 12, 3: score 92, high
C9_Witness ==
    /\ cpc = "analyzed"
    /\ Len(analysis.file_specs) = 5
    /\ Len(analysis.calculation_specs) = 40
    /\ Cardinality(Range(analysis.indicators)) = 12
    /\ Len(analysis.subroutines) = 3
    /\ analysis.conversion_complexity = "high"

\* C10: the generated text holds one DCL-F line for every file entry of the
\* analysis, whatever its file-type code.
C10_OneDeclarationPerFileEntry ==
    cpc = "done"
      => Cardinality(LinesStarting(Split(conversion_result.converted_code), S_DCL_F))
            = Len(analysis.file_specs)

\* a finite set of numbers as the ascending sequence of its elements
SortedSeq(S) ==
    [k \in 1..Cardinality(S) |->
        CHOOSE x \in S : Cardinality({ y \in S : y <= x }) = k]

\* the lines of ls that make a calculation entry with a non-blank field [7,11)
ConditionedLines(ls) ==
    { i \in 1..Len(ls) :
        /\ Len(ls[i]) >= 6
        /\ ls[i][6] = "C"
        /\ Strip(Slice(ls[i], 7, 11)) # <<>> }

\* C11: the warnings are, in source order, one for each calculation entry
\* whose field [7,11) is non-blank after trimming, whether or not its operation
\* is mapped to a generated line.
C11_WarningPerConditionedEntry ==
    cpc \in {"emitted", "done"}
      => LET idx == SortedSeq(ConditionedLines(lines))
             w == conversion_result.warnings
         IN /\ Len(w) = Len(idx)
            /\ \A k \in 1..Len(idx) :
                  w[k] = Note("Indicator used - may need manual conversion",
                              Strip(Slice(lines[idx[k]], 7, 11)))

\* two conditioned entries, one of them with an operation that has no mapping
C11_Witness ==
    /\ cpc = "done"
    /\ Len(conversion_result.warnings) = 2
    /\ \E i \in 1..Len(analysis.calculation_specs) :
          /\ analysis.calculation_specs[i].indicators # <<>>
          /\ EmitCalc(analysis.calculation_specs[i]) = <<>>

\* C12: every result of convert_to_freeform, successful or not, with or
\* without standards, holds the input text as its original text.
C12_OriginalTextKept ==
    cpc \in {"emitted", "done", "failed"}
      => conversion_result.original_code = code

\* a failed conversion of a text of two lines, standards given
C12_Witness ==
    /\ cpc = "failed"
    /\ conversion_result.success = FALSE
    /\ standards = "hints"
    /\ Len(lines) = 2
    /\ conversion_result.conversion_notes # <<>>
    /\ conversion_result.original_code = code

\* C13: no failure leaves convert_to_freeform; a failed conversion is a result
\* with success false, an error description and an empty generated text.
C13_FailureIsReturned ==
    /\ cpc # "raised"
    /\ cpc = "failed"
         => /\ conversion_result.success = FALSE
            /\ conversion_result.error = "set"
            /\ conversion_result.converted_code = <<>>

\* no line of ls has one of the six record types at offset 5
Untagged(ls) ==
    \A i \in 1..Len(ls) :
        Len(ls[i]) < 6 \/ ls[i][6] \notin {"H", "F", "D", "I", "C", "O"}

\* C14: a text without a recognized record type converts with success, no
\* warning, no note, and a body of the blank line and the section comment.
C14_UntaggedTextGivesEmptyBody ==
    (cpc = "done" /\ Untagged(lines))
      => /\ conversion_result.success = TRUE
         /\ conversion_result.warnings = <<>>
         /\ conversion_result.conversion_notes = <<>>
         /\ LET out == Split(conversion_result.converted_code)
            IN /\ Len(out) = 2
               /\ out[1] = <<>>
               /\ Strip(out[2]) = S_MAIN

\* an untagged text in which the analyzer found a subroutine name, converted
\* with standards
C14_Witness ==
    /\ cpc = "done"
    /\ Untagged(lines)
    /\ Len(lines) = 2
    /\ analysis.subroutines # <<>>
    /\ standards = "hints"

\* C15: every BEGSR calculation entry has its name among the subroutines and
\* a DCL-PROC line, and the DCL-PROC lines of the generated text name, in
\* order, exactly the subroutines of the analysis.
C15_ProceduresAreTheSubroutines ==
    cpc = "done"
      => LET out == Split(conversion_result.converted_code)
             idx == SortedSeq(LinesStarting(out, S_DCL_PROC))
         IN /\ \A i \in 1..Len(analysis.calculation_specs) :
                  LET e == analysis.calculation_specs[i] IN
                  Upper(e.operation) = BEGSR
                    => /\ e.result \in Range(analysis.subroutines)
                       /\ \E k \in 1..Len(out) : out[k] = S_DCL_PROC \o e.result \o S_SEMI
            /\ Len(idx) = Len(analysis.subroutines)
            /\ \A k \in 1..Len(idx) :
                  out[idx[k]] = S_DCL_PROC \o analysis.subroutines[k] \o S_SEMI

\* the entries of the six groups, as one sequence
AllEntries(a) ==
    a.control_specs \o a.file_specs \o a.definition_specs \o a.input_specs
      \o a.calculation_specs \o a.output_specs

\* C21: the fixed-format line count is the number of entries of the six
\* groups: a line without a recognized record type is not counted.
C21_CountedLinesAreEntries ==
    cpc \in {"scan", "analyzed", "emitted", "done"}
      => analysis.fixed_format_lines = Len(AllEntries(analysis))

\* the result fields of the calculation entries that begin a subroutine
SubroutineResults(entries) ==
    LET f[i \in 0..Len(entries)] ==
          IF i = 0 THEN <<>>
          ELSE IF Upper(entries[i].operation) = BEGSR
               THEN Append(f[i - 1], entries[i].result)
               ELSE f[i - 1]
    IN f[Len(entries)]

\* C22: the subroutine names are, in line order and with duplicates, the
\* result fields of the calculation entries whose operation is BEGSR; there are
\* never more subroutines than calculation entries.
C22_SubroutinesComeFromCalculations ==
    cpc \in {"analyzed", "emitted", "done"}
      => /\ analysis.subroutines = SubroutineResults(analysis.calculation_specs)
         /\ Len(analysis.subroutines) <= Len(analysis.calculation_specs)

\* C23: the condition markers are without duplicate and without blank value,
\* and they are the non-blank marker fields of the calculation entries.
C23_MarkersComeFromCalculations ==
    cpc \in {"analyzed", "emitted", "done"}
      => /\ \A i, j \in 1..Len(analysis.indicators) :
               analysis.indicators[i] = analysis.indicators[j] => i = j
         /\ \A i \in 1..Len(analysis.indicators) : Strip(analysis.indicators[i]) # <<>>
         /\ Range(analysis.indicators)
               = { analysis.calculation_specs[i].indicators :
                     i \in 1..Len(analysis.calculation_specs) } \ { <<>> }

\* the lines of ls with the record type tag, in line order; named only: those
\* with a non-blank name field [7,21)
TaggedLines(ls, tag, named) ==
    SortedSeq({ i \in 1..Len(ls) :
                  /\ Len(ls[i]) >= 6
                  /\ ls[i][6] = tag
                  /\ named => Strip(Slice(ls[i], 7, 21)) # <<>> })

IsFileNote(n) == n.text = "Converted F-spec for"
IsDefinitionNote(n) == n.text = "Converted D-spec for"
IsProcedureNote(n) == n.text = "Converted subroutine to procedure"

\* C25: in every group the line numbers grow strictly, no line has two
\* entries, and the converter's notes for the file, definition and calculation
\* entries follow the line order of the source.
C25_EntriesKeepLineOrder ==
    /\ cpc \in {"scan", "analyzed", "emitted", "done"}
         => /\ \A g \in { analysis.control_specs, analysis.file_specs,
                          analysis.definition_specs, analysis.input_specs,
                          analysis.calculation_specs, analysis.output_specs } :
                  \A i \in 1..(Len(g) - 1) : g[i].line < g[i + 1].line
            /\ LET all == AllEntries(analysis) IN
               /\ \A i, j \in 1..Len(all) : all[i].line = all[j].line => i = j
               /\ \A i \in 1..Len(all) :
                     all[i].line < line_num /\ all[i].content = lines[all[i].line]
    /\ cpc \in {"emitted", "done"}
         => LET notes == conversion_result.conversion_notes
                fn == SelectSeq(notes, IsFileNote)
                fl == TaggedLines(lines, "F", FALSE)
                dn == SelectSeq(notes, IsDefinitionNote)
                dl == TaggedLines(lines, "D", TRUE)
                pn == SelectSeq(notes, IsProcedureNote)
            IN /\ Len(fn) = Len(fl)
               /\ \A k \in 1..Len(fl) : fn[k].arg = Strip(Slice(lines[fl[k]], 7, 15))
               /\ Len(dn) = Len(dl)
               /\ \A k \in 1..Len(dl) : dn[k].arg = Strip(Slice(lines[dl[k]], 7, 21))
               /\ [k \in 1..Len(pn) |-> pn[k].arg]
                     = SubroutineResults(analysis.calculation_specs)

\* two file lines with different names, converted
C25_Witness ==
    /\ cpc = "done"
    /\ Len(analysis.file_specs) = 2
    /\ analysis.file_specs[1].line = 1
    /\ analysis.file_specs[2].line = 2
    /\ analysis.file_specs[1].filename # analysis.file_specs[2].filename
    /\ Len(conversion_result.conversion_notes) = 2

\* the section of a generated line
SectionOf(line) ==
    IF line = S_CTL_OPT THEN 1
    ELSE IF StartsWith(line, S_DCL_F) THEN 2
    ELSE IF StartsWith(line, S_DCL_S) THEN 3
    ELSE 4

\* C26: the generated text has the control statement (one, when there is a
\* control entry; none otherwise), then the file declarations, then the
\* variable declarations, then the rest, whatever the order of the source.
C26_SectionsInFixedOrder ==
    cpc = "done"
      => LET out == Split(conversion_result.converted_code) IN
         /\ Cardinality({ i \in 1..Len(out) : out[i] = S_CTL_OPT })
               = (IF TaggedLines(lines, "H", FALSE) # <<>> THEN 1 ELSE 0)
         /\ \A i, j \in 1..Len(out) : i < j => SectionOf(out[i]) <= SectionOf(out[j])

\* a definition line before a file line in the source, declared in the other
\* order in the generated text
C26_Witness ==
    /\ cpc = "done"
    /\ Len(lines) = 2
    /\ TaggedLines(lines, "D", TRUE) = <<1>>
    /\ TaggedLines(lines, "F", FALSE) = <<2>>
    /\ LET out == Split(conversion_result.converted_code) IN
       /\ StartsWith(out[1], S_DCL_F)
       /\ StartsWith(out[2], S_DCL_S)

S_KEYED == <<" ", "K", "E", "Y", "E", "D", ";">>

EndsWith(s, suffix) ==
    /\ Len(s) >= Len(suffix)
    /\ SubSeq(s, Len(s) - Len(suffix) + 1, Len(s)) = suffix

\* C27: a file declaration ends with KEYED exactly when the file line has the
\* record address type K (offset 33) of keyed access.
C27_KeyedOnlyForKeyedFiles ==
    cpc = "done"
      => LET out == Split(conversion_result.converted_code) IN
         \A i \in 1..Len(analysis.file_specs) :
            LET e == analysis.file_specs[i] IN
            \A k \in 1..Len(out) :
               StartsWith(out[k], S_DCL_F \o e.filename \o S_SPACE)
                 => (EndsWith(out[k], S_KEYED) <=> Slice(lines[e.line], 33, 34) = <<"K">>)

\* the line is blank, or starts with DCL- or **, or with four blanks and no fifth
WellIndented(line) ==
    \/ Strip(line) = <<>>
    \/ StartsWith(line, S_STARS)
    \/ StartsWith(line, S_DCL)
    \/ StartsWith(line, S_INDENT) /\ Slice(line, 4, 5) # <<" ">>

\* C28: with standards, every generated line that is not blank, a declaration
\* or a directive starts with exactly four blanks; the applied-standards list
\* has one entry per line changed; a second pass changes nothing.
C28_StandardsIndentOnce ==
    /\ [](cpc = "done" /\ Truthy(standards)
            => /\ \A i \in 1..Len(converted_lines) : WellIndented(converted_lines[i])
               /\ StandardLines(converted_lines) = converted_lines)
    /\ [][(cpc = "emitted" /\ cpc' = "done" /\ Truthy(standards))
            => Len(conversion_result'.standards_applied)
                  = Cardinality({ i \in 1..Len(converted_lines) :
                                     converted_lines'[i] # converted_lines[i] })]_vars

\* C24: for every segment of a batch, the bucket of the recomputed score
\* (below 10, below 30, or not) is the classification stored in the segment's
\* analysis; in the report every result is listed under that bucket only.
C24_RecomputedBucketAgrees ==
    /\ \A i \in 1..Len(results) :
          LET r == results[i] IN
          r.analysis.conversion_complexity =
             (CASE r.complexity_score < 10 -> "low"
                [] r.complexity_score >= 10 /\ r.complexity_score < 30 -> "medium"
                [] r.complexity_score >= 30 -> "high")
    /\ tpc = "done"
         => \A i \in 1..Len(results) :
               LET r == results[i] IN
               /\ r \in Range(low_complexity) <=> r.analysis.conversion_complexity = "low"
               /\ r \in Range(medium_complexity)
                     <=> r.analysis.conversion_complexity = "medium"
               /\ r \in Range(high_complexity) <=> r.analysis.conversion_complexity = "high"

\* a batch of a segment of score 29 and one of score 30, reported
C24_Witness ==
    /\ tpc = "done"
    /\ Len(results) = 2
    /\ results[1].complexity_score = 29
    /\ results[1].analysis.conversion_complexity = "medium"
    /\ results[2].complexity_score = 30
    /\ results[2].analysis.conversion_complexity = "high"
    /\ Len(medium_complexity) = 1
    /\ Len(high_complexity) = 1

----------------------------------------------------------------------------
(* Properties of extract_code_blocks *)

\* the line has six characters or more and a tag character at offset 5
HasTag(line) ==
    /\ Len(line) >= 6
    /\ line[6] \in {"H", "F", "D", "I", "C", "O", "h", "f", "d", "i", "c", "o"}

\* the tagged lines of ls that open a block: no tagged line before them, or a
\* non-blank line without a tag since the last one
BlockStarts(ls) ==
    { i \in 1..Len(ls) :
        /\ HasTag(ls[i])
        /\ \A j \in 1..(i - 1) :
              HasTag(ls[j])
                => \E m \in (j + 1)..(i - 1) : ~HasTag(ls[m]) /\ Strip(ls[m]) # <<>> }

\* the lines of an emitted block
LinesOfBlock(b) == Split(b.code)

\* C16: the scan is the machine outside/inside: a tagged line enters or stays
\* inside and is accumulated, a blank line inside changes nothing, a non-blank
\* line without a tag inside emits the block and leaves, the end of the text
\* emits the open block; the emitted blocks hold every tagged line once, in
\* input order, one block for each run.
C16_BlockScanIsTwoStateMachine ==
    /\ [][(bpc = "scan" /\ doc_idx <= Len(doc_lines))
            => LET l == doc_lines[doc_idx] IN
               /\ HasTag(l)
                    => /\ in_traditional_block'
                       /\ traditional_block' =
                             (IF in_traditional_block THEN traditional_block ELSE <<>>)
                                \o <<l>>
                       /\ code_blocks' = code_blocks
               /\ (~HasTag(l) /\ in_traditional_block /\ Strip(l) = <<>>)
                    => /\ in_traditional_block'
                       /\ traditional_block' = traditional_block
                       /\ code_blocks' = code_blocks
               /\ (~HasTag(l) /\ in_traditional_block /\ Strip(l) # <<>>)
                    => /\ ~in_traditional_block'
                       /\ Len(code_blocks') = Len(code_blocks) + 1
                       /\ LinesOfBlock(code_blocks'[Len(code_blocks')]) = traditional_block
                       /\ SubSeq(code_blocks', 1, Len(code_blocks)) = code_blocks
               /\ (~HasTag(l) /\ ~in_traditional_block)
                    => /\ ~in_traditional_block'
                       /\ code_blocks' = code_blocks]_vars
    /\ [](bpc = "done"
            => LET starts == SortedSeq(BlockStarts(doc_lines)) IN
               /\ FlatMap(LinesOfBlock, code_blocks) = SelectSeq(doc_lines, HasTag)
               /\ Len(code_blocks) = Len(starts)
               /\ \A k \in 1..Len(starts) :
                     /\ code_blocks[k].type = "RPG Traditional"
                     /\ LinesOfBlock(code_blocks[k])[1] = doc_lines[starts[k]])

\* two blocks: the first holds a blank line between two tagged lines and is
\* closed by a line of text, the second is open at the end of the text
C16_Witness ==
    /\ bpc = "done"
    /\ Len(doc_lines) = 5
    /\ HasTag(doc_lines[1])
    /\ doc_lines[2] = L_BLANK
    /\ HasTag(doc_lines[3])
    /\ doc_lines[4] = L_TEXT
    /\ HasTag(doc_lines[5])
    /\ Len(code_blocks) = 2
    /\ LinesOfBlock(code_blocks[1]) = <<doc_lines[1], doc_lines[3]>>
    /\ LinesOfBlock(code_blocks[2]) = <<doc_lines[5]>>

====
